---- MODULE Spec2Model ----
(***************************************************************************)
(* user-service: the request-ingress pipeline (gin middleware chain with   *)
(* token authentication) composed with the graceful-shutdown sequence of   *)
(* main / runGracefulShutdown.                                             *)
(*                                                                         *)
(* One main goroutine walks the shutdown sequence; every request is its    *)
(* own goroutine walking the middleware chain.  Time is a discrete clock   *)
(* counting ticks since the termination signal.  A request enters the      *)
(* chain in the step in which the listener accepts its connection.         *)
(***************************************************************************)
EXTENDS Integers, Sequences, FiniteSets, TLC

\* ------------------------------------------------------------------ bounds
\* request goroutines followed when requests race with the shutdown sequence
MaxReq == 2
\* request goroutines followed when every kind of request is sent
MaxChainReq == 1
\* cfg.ReadinessDrainDelay and cfg.ShutdownTimeout, in clock ticks; config.Load
\* keeps both at 1 or more.
ReadinessDrainDelay == 1
ShutdownTimeout == 2
MaxSignals == 2
MaxPathSuffixLen == 2
\* how many ticks past drain delay + shutdown timeout the clock is followed
MaxOverrun == 1

Reqs == 1..MaxReq
ChainReqs == 1..MaxChainReq
MaxTime == ReadinessDrainDelay + ShutdownTimeout + MaxOverrun

\* longest traceparent header value sent
MaxTraceParentLen == 4
\* generateTraceID: make([]byte, 16)
TraceIDBytes == 16

\* longest value of SHUTDOWN_TIMEOUT and READINESS_DRAIN_DELAY set
MaxEnvLen == 4
\* config.Load: getEnvDurationSeconds("SHUTDOWN_TIMEOUT", 10)
DefaultShutdownTimeout == 10
\* getEnvDurationSeconds: const maxSeconds = 60
MaxShutdownTimeout == 60
\* config.Load: getEnvDurationSecondsWithMax("READINESS_DRAIN_DELAY", 5, 30)
DefaultReadinessDrainDelay == 5
MaxReadinessDrainDelay == 30

\* ------------------------------------------------------------- text values
\* Header values and paths are sequences of characters, so that prefix tests
\* and slicing are computed as the code computes them.
bearerPrefix == <<"B", "e", "a", "r", "e", "r", " ">>
HdrNone == <<>>
HdrBearerOnly == bearerPrefix
HdrBearerTok == bearerPrefix \o <<"t">>
HdrBasic == <<"B", "a", "s", "i", "c", " ", "x", "y", "z">>
HdrLower == <<"b", "e", "a", "r", "e", "r", " ", "t">>
Headers == {HdrNone, HdrBearerOnly, HdrBearerTok, HdrBasic, HdrLower}

PathHealth == <<"/", "h", "e", "a", "l", "t", "h">>
PathReady == <<"/", "r", "e", "a", "d", "y">>
PathMetrics == <<"/", "m", "e", "t", "r", "i", "c", "s">>
PathReadiness == <<"/", "r", "e", "a", "d", "i", "n", "e", "s", "s">>
PathLiveness == <<"/", "l", "i", "v", "e", "n", "e", "s", "s">>
PathUsers == <<"/", "a", "p", "i", "/", "v", "1", "/", "u", "s", "e", "r", "s">>
PathProfile == PathUsers \o <<"/", "p", "r", "o", "f", "i", "l", "e">>
PathUser42 == PathUsers \o <<"/", "4", "2">>
PathFavicon == <<"/", "f", "a", "v", "i", "c", "o", "n", ".", "i", "c", "o">>
PathHealthz == <<"/", "h", "e", "a", "l", "t", "h", "z">>
PathReadyz == <<"/", "r", "e", "a", "d", "y", "z">>
PathLivez == <<"/", "l", "i", "v", "e", "z">>

\* The requests the environment sends: (method, path) pairs.
Targets ==
    { [method |-> "GET", path |-> PathHealth],
      [method |-> "GET", path |-> PathReady],
      [method |-> "GET", path |-> PathMetrics],
      [method |-> "GET", path |-> PathFavicon],
      [method |-> "GET", path |-> PathUser42],
      [method |-> "POST", path |-> PathUsers],
      [method |-> "GET", path |-> PathProfile],
      [method |-> "PUT", path |-> PathProfile] }

CoreTargets ==
    { [method |-> "GET", path |-> PathReady],
      [method |-> "GET", path |-> PathProfile] }

CoreHeaders == {HdrNone, HdrBearerTok}

NoTarget == [method |-> "", path |-> <<>>]

\* What the identity service can answer to GET /api/v1/auth/me.
AuthResponses ==
    {"ok", "ok_noid", "unauthorized", "server_error", "decode_error", "net_error",
     "timeout"}

CoreResponses == {"ok", "unauthorized"}

\* The probes and one API request, sent with a valid token.
ProbeTargets ==
    { [method |-> "GET", path |-> PathHealth],
      [method |-> "GET", path |-> PathReady],
      [method |-> "GET", path |-> PathProfile] }

HasPrefix(s, p) == Len(s) >= Len(p) /\ SubSeq(s, 1, Len(p)) = p

VARIABLES
    mainPc,            \* where the main goroutine stands
    isShuttingDown,    \* atomic.Bool readiness flag
    listener,          \* "none" | "binding" | "listening" | "failed" | "closed"
    elapsed,           \* clock ticks since the termination signal
    deadline,          \* shutdownCtx deadline on the clock, -1 before it exists
    srvErr,            \* srv.Shutdown returned an error
    tpErr,             \* tp.Shutdown returned an error
    tp,                \* TRUE iff initTracing returned a provider
    tracingErr,        \* middleware.InitTracing returned an error
    signals,           \* SIGTERM and SIGINT delivered to the process so far
    allowFallback,     \* cfg.AuthAllowUnauthenticatedFallback
    poolClosed,        \* the pool rejects new acquires
    connsOut,          \* pool connections held by handlers
    steps,             \* teardown calls made so far, in order, with their caller
    seen503,           \* a /ready probe has been answered 503
    req,               \* per request: position in the chain and gin context
    requestsInFlight,  \* gauge requests_in_flight{method,path}
    exitCode,          \* exit code of the process, -1 while it runs
    startFailure,      \* the startup step that failed, "none" if none did
    call               \* a function applied on its own: its arguments and result

vars == <<mainPc, isShuttingDown, listener, elapsed, deadline, srvErr, tpErr, tp,
          tracingErr, signals, allowFallback, poolClosed, connsOut, steps, seen503, req, requestsInFlight,
          exitCode, startFailure, call>>

mainVars == <<mainPc, isShuttingDown, listener, deadline, srvErr, tpErr, tp,
              tracingErr, signals, allowFallback, poolClosed, steps, exitCode, startFailure, call>>

NoCall == [fn |-> "none"]

IdleReq ==
    [pc |-> "idle", target |-> NoTarget, authHeader |-> <<>>, status |-> 0,
     body |-> "", userID |-> "", authResp |-> "none", authCalls |-> 0,
     rejectedBy |-> "none", handlerInvoked |-> FALSE, panicked |-> FALSE,
     after503 |-> FALSE, flagRead |-> "none", obs |-> <<>>, logs |-> <<>>,
     stages |-> <<>>]

Init ==
    /\ mainPc = "waitSignal"
    /\ isShuttingDown = FALSE
    /\ listener = "listening"
    /\ elapsed = 0
    /\ deadline = -1
    /\ srvErr = FALSE
    /\ tpErr = FALSE
    /\ tp \in BOOLEAN
    /\ tracingErr = FALSE
    /\ signals = 0
    /\ allowFallback \in BOOLEAN
    /\ poolClosed = FALSE
    /\ connsOut = 0
    /\ steps = <<>>
    /\ seen503 = FALSE
    /\ req = [r \in Reqs |-> IdleReq]
    /\ requestsInFlight = [t \in Targets |-> 0]
    /\ exitCode = -1
    /\ startFailure = "none"
    /\ call = NoCall

\* ------------------------------------------------------------ pure helpers
\* shouldCollectMetrics: FALSE for paths that start with an infrastructure path.
infrastructurePaths == {PathHealth, PathReady, PathMetrics, PathReadiness, PathLiveness}

shouldCollectMetrics(path) ==
    ~ \E skipPath \in infrastructurePaths : HasPrefix(path, skipPath)

\* The route table of setupServer: the handler gin selects for (method, path).
Route(t) ==
    CASE t.method = "GET" /\ t.path = PathHealth -> "health"
      [] t.method = "GET" /\ t.path = PathReady -> "ready"
      [] t.method = "GET" /\ t.path = PathMetrics -> "metrics"
      [] t.method = "GET" /\ t.path = PathProfile -> "GetProfile"
      [] t.method = "PUT" /\ t.path = PathProfile -> "UpdateProfile"
      [] t.method = "POST" /\ t.path = PathUsers -> "CreateUser"
      [] t.method = "GET" /\ t.path # PathProfile
           /\ HasPrefix(t.path, PathUsers \o <<"/">>)
           /\ Len(t.path) > Len(PathUsers) + 1
           /\ \A i \in (Len(PathUsers) + 2)..Len(t.path) : t.path[i] # "/" -> "GetUser"
      [] OTHER -> "NoRoute"

\* Faulty variant of Protected: AuthMiddleware is registered on the apiV1
\* group, so on every route under /api/v1.
Protected_WholeGroup(t) ==
    Route(t) \in {"GetProfile", "UpdateProfile", "GetUser", "CreateUser"}

\* profileGroup.Use(AuthMiddleware): the routes registered on profileGroup.
Protected(t) == Route(t) \in {"GetProfile", "UpdateProfile"}

\* Faulty variant of GetMe: only 401 is taken as a refusal, every other
\* status goes on to the decoder.
GetMe_AnyStatusDecoded(resp) ==
    CASE resp \in {"net_error", "timeout"} -> [user |-> FALSE, err |-> TRUE, id |-> ""]
      [] resp = "unauthorized" -> [user |-> FALSE, err |-> TRUE, id |-> ""]
      [] resp = "server_error" -> [user |-> TRUE, err |-> FALSE, id |-> ""]
      [] resp = "decode_error" -> [user |-> FALSE, err |-> TRUE, id |-> ""]
      [] resp = "ok_noid" -> [user |-> TRUE, err |-> FALSE, id |-> ""]
      [] OTHER -> [user |-> TRUE, err |-> FALSE, id |-> "42"]

\* AuthClient.GetMe: the user and error returned for an answer of the identity
\* service.  user = FALSE stands for a nil *AuthUser, err = FALSE for a nil
\* error.  httpClient.Do fails on a network error and when the client's
\* timeout expires; "ok_noid" is a 200 whose body decodes to a user without id.
GetMe(resp) ==
    CASE resp \in {"net_error", "timeout"} -> [user |-> FALSE, err |-> TRUE, id |-> ""]
      [] resp = "unauthorized" -> [user |-> FALSE, err |-> TRUE, id |-> ""]
      [] resp = "server_error" -> [user |-> FALSE, err |-> TRUE, id |-> ""]
      [] resp = "decode_error" -> [user |-> FALSE, err |-> TRUE, id |-> ""]
      [] resp = "ok_noid" -> [user |-> TRUE, err |-> FALSE, id |-> ""]
      [] OTHER -> [user |-> TRUE, err |-> FALSE, id |-> "42"]

\* Faulty variant of HeaderAccepted: "<" for "<=", so that "Bearer " with an
\* empty token passes.
HeaderAccepted_OffByOne(authHeader) ==
    ~ (Len(authHeader) < Len(bearerPrefix)
       \/ SubSeq(authHeader, 1, Len(bearerPrefix)) # bearerPrefix)

\* The header test of AuthMiddleware: TRUE when the header is taken as
\* "Bearer <token>" and the token is handed to GetMe.
HeaderAccepted(authHeader) ==
    ~ (Len(authHeader) <= Len(bearerPrefix)
       \/ SubSeq(authHeader, 1, Len(bearerPrefix)) # bearerPrefix)

\* Faulty variant of AuthFailed: the fallback flag is ignored.
AuthFailed_Rejects(fallback, message, called, resp) ==
    [next |-> FALSE, userID |-> "", status |-> 401, body |-> message,
     calls |-> called, resp |-> resp]

\* What AuthMiddleware does when a check fails: fall back to user "1" or abort.
AuthFailed(fallback, message, called, resp) ==
    IF fallback
    THEN [next |-> TRUE, userID |-> "1", status |-> 200, body |-> "",
          calls |-> called, resp |-> resp]
    ELSE [next |-> FALSE, userID |-> "", status |-> 401, body |-> message,
          calls |-> called, resp |-> resp]

\* Faulty variant of AuthMiddleware: GetMe is called before the header is
\* looked at, and called again when it failed.
AuthMiddleware_CallsAnyway(authHeader, resp, fallback) ==
    IF authHeader = <<>>
    THEN AuthFailed(fallback, "Authentication required", 1, "none")
    ELSE IF ~HeaderAccepted(authHeader)
    THEN AuthFailed(fallback, "Invalid authorization header", 1, "none")
    ELSE IF GetMe(resp).err
    THEN AuthFailed(fallback, "Invalid or expired token", 2, resp)
    ELSE [next |-> TRUE, userID |-> GetMe(resp).id, status |-> 200, body |-> "",
          calls |-> 1, resp |-> resp]

\* Faulty variant of AuthMiddleware: a missing header and a refused token
\* are answered with each other's message.
AuthMiddleware_MessagesSwapped(authHeader, resp, fallback) ==
    IF authHeader = <<>>
    THEN AuthFailed(fallback, "Invalid or expired token", 0, "none")
    ELSE IF ~HeaderAccepted(authHeader)
    THEN AuthFailed(fallback, "Invalid authorization header", 0, "none")
    ELSE IF GetMe(resp).err
    THEN AuthFailed(fallback, "Authentication required", 1, resp)
    ELSE [next |-> TRUE, userID |-> GetMe(resp).id, status |-> 200, body |-> "",
          calls |-> 1, resp |-> resp]

\* AuthMiddleware: the decision for one request.  resp is the answer the
\* identity service gives if it is called.
AuthMiddleware(authHeader, resp, fallback) ==
    IF authHeader = <<>>
    THEN AuthFailed(fallback, "Authentication required", 0, "none")
    ELSE IF ~HeaderAccepted(authHeader)
    THEN AuthFailed(fallback, "Invalid authorization header", 0, "none")
    ELSE IF GetMe(resp).err
    THEN AuthFailed(fallback, "Invalid or expired token", 1, resp)
    ELSE [next |-> TRUE, userID |-> GetMe(resp).id, status |-> 200, body |-> "",
          calls |-> 1, resp |-> resp]

\* Faulty variant of globalChain: PrometheusMiddleware is registered before
\* LoggingMiddleware.
globalChain_MetricsFirst == <<"trace", "metrics", "log">>

\* The middlewares setupServer registers on the engine with r.Use, in the
\* order of registration: TracingMiddleware, LoggingMiddleware,
\* PrometheusMiddleware.
globalChain == <<"trace", "log", "metrics">>

Stage(name, at) == [stage |-> name, at |-> at]

\* A request entering the chain runs each middleware up to its c.Next(), in
\* the order of registration.
StagesIn == [i \in 1..Len(globalChain) |-> Stage(globalChain[i], "start")]

\* The code after c.Next() runs in the reverse order, as the calls return.
\* LoggingMiddleware and PrometheusMiddleware have such code.
StagesOut ==
    LET ends == SelectSeq(globalChain, LAMBDA m : m \in {"log", "metrics"})
    IN [i \in 1..Len(ends) |-> Stage(ends[Len(ends) + 1 - i], "end")]

\* PrometheusMiddleware before c.Next(): the request size is observed under
\* the code label "" (code 0 here; every real status is a positive number).
PromBefore == <<[metric |-> "request_size_bytes", code |-> 0]>>

\* PrometheusMiddleware after c.Next(): the observations recorded for a status.
PromAfter(status) ==
    <<[metric |-> "request_duration_seconds", code |-> status],
      [metric |-> "requests_total", code |-> status],
      [metric |-> "response_size_bytes", code |-> status]>>
    \o (IF status >= 500 THEN <<[metric |-> "error_rate_total", code |-> status]>> ELSE <<>>)

\* LoggingMiddleware after c.Next(): the entries written for a status.
LogAfter(status) ==
    <<[level |-> "info", msg |-> "HTTP request", status |-> status]>>
    \o (IF status >= 400 THEN <<[level |-> "error", msg |-> "HTTP error", status |-> status]>> ELSE <<>>)

\* Faulty variant of Unwound: PrometheusMiddleware labels its observations
\* with the status the writer had before c.Next().
Unwound_StatusBeforeNext(rq, status, body) ==
    [rq EXCEPT !.pc = "done", !.status = status, !.body = body,
               !.obs = IF shouldCollectMetrics(rq.target.path) THEN @ \o PromAfter(rq.status) ELSE @,
               !.logs = @ \o LogAfter(status),
               !.stages = @ \o StagesOut]

\* The request after its response was written with (status, body) and the
\* chain has unwound through PrometheusMiddleware and LoggingMiddleware.
Unwound(rq, status, body) ==
    [rq EXCEPT !.pc = "done", !.status = status, !.body = body,
               !.obs = IF shouldCollectMetrics(rq.target.path) THEN @ \o PromAfter(status) ELSE @,
               !.logs = @ \o LogAfter(status),
               !.stages = @ \o StagesOut]

\* Faulty variant of GaugeDec: Dec() is also called for the paths that
\* shouldCollectMetrics skips, for which Inc() was not called.
GaugeDec_AllPaths(t) == [requestsInFlight EXCEPT ![t] = @ - 1]

\* requestsInFlight after PrometheusMiddleware's Dec() for target t.
GaugeDec(t) ==
    IF shouldCollectMetrics(t.path)
    THEN [requestsInFlight EXCEPT ![t] = @ - 1]
    ELSE requestsInFlight

\* gin's Recovery (from gin.Default) answering 500 after a panic unwound the
\* chain: none of the code after c.Next() in the middlewares has run.
Recovered(rq) ==
    [rq EXCEPT !.pc = "done", !.status = 500, !.body = "", !.panicked = TRUE]

InFlight == {r \in Reqs : req[r].pc \notin {"idle", "done"}}

\* ------------------------------------------------------------ trace-id
\* All character sequences over alphabet of length at most n.
RECURSIVE Strings(_, _)
Strings(alphabet, n) ==
    IF n = 0 THEN {<<>>}
    ELSE LET shorter == Strings(alphabet, n - 1)
         IN shorter \cup {Append(w, ch) : w \in shorter, ch \in alphabet}

\* The traceparent and X-Trace-ID header values sent (<<>>: header absent),
\* and the bytes rand.Read puts in the buffer.
TraceParents == Strings({"-", "a", "b"}, MaxTraceParentLen)
XTraceIDs == {<<>>, <<"x", "1">>}
RandomBytes ==
    { [i \in 1..TraceIDBytes |-> 0],
      [i \in 1..TraceIDBytes |-> 255],
      [i \in 1..TraceIDBytes |-> (i * 37) % 256] }

\* splitTraceParent: the loop over the bytes of the header value; a field is
\* appended only when it is not empty (start < i), and so is the last one.
RECURSIVE splitLoop(_, _, _, _)
splitLoop(traceParent, i, start, parts) ==
    IF i > Len(traceParent)
    THEN IF start <= Len(traceParent)
         THEN Append(parts, SubSeq(traceParent, start, Len(traceParent)))
         ELSE parts
    ELSE IF traceParent[i] = "-"
    THEN splitLoop(traceParent, i + 1, i + 1,
                   IF start < i THEN Append(parts, SubSeq(traceParent, start, i - 1))
                   ELSE parts)
    ELSE splitLoop(traceParent, i + 1, start, parts)

splitTraceParent(traceParent) == splitLoop(traceParent, 1, 1, <<>>)

\* hex.EncodeToString: two lowercase hexadecimal digits per byte.
hextable == <<"0", "1", "2", "3", "4", "5", "6", "7", "8", "9",
              "a", "b", "c", "d", "e", "f">>

RECURSIVE EncodeToString(_)
EncodeToString(bytes) ==
    IF bytes = <<>> THEN <<>>
    ELSE <<hextable[(Head(bytes) \div 16) + 1], hextable[(Head(bytes) % 16) + 1]>>
         \o EncodeToString(Tail(bytes))

generateTraceID(b) == EncodeToString(b)

\* GetTraceID: the second part of traceparent, else X-Trace-ID, else a
\* generated id.  b is what rand.Read returns if an id is generated.
GetTraceID(traceParent, xTraceID, b) ==
    LET parts == splitTraceParent(traceParent) IN
    IF traceParent # <<>> /\ Len(parts) >= 2 /\ parts[2] # <<>>
    THEN parts[2]
    ELSE IF xTraceID # <<>>
    THEN xTraceID
    ELSE generateTraceID(b)

\* LoggingMiddleware up to c.Header(TraceIDHeader, traceID), for one request:
\* the X-Trace-ID value put on the response.
LoggingTraceID ==
    /\ call.fn = "GetTraceID"
    /\ ~call.done
    /\ call' = [call EXCEPT !.done = TRUE,
                            !.out = GetTraceID(call.traceparent, call.xTraceID, call.rand)]
    /\ UNCHANGED <<mainPc, tracingErr, signals, isShuttingDown, listener, elapsed, deadline, srvErr, tpErr,
                   tp, allowFallback, poolClosed, connsOut, steps, seen503, req,
                   requestsInFlight, exitCode, startFailure>>

\* ------------------------------------------------------------ exempt paths
\* shouldTrace: FALSE for paths that start with one of skipPaths.
skipPaths == {PathHealth, PathHealthz, PathReady, PathReadyz, PathLivez, PathMetrics,
              PathFavicon}

shouldTrace(path) ==
    ~ \E skip \in skipPaths : HasPrefix(path, skip)

\* The request paths put to the two stages: every path either list names and
\* the API paths, each cut short at any length and each followed by up to
\* MaxPathSuffixLen further characters.
BasePaths == skipPaths \cup infrastructurePaths \cup {PathUsers, PathProfile}

RequestPaths ==
    UNION {{SubSeq(b, 1, k) : k \in 1..Len(b)} : b \in BasePaths}
      \cup {b \o x : b \in BasePaths, x \in Strings({"/", "s", "z"}, MaxPathSuffixLen)}

\* TracingMiddleware's and PrometheusMiddleware's decision for one request
\* path: whether the trace stage wraps the request in a span, and whether the
\* metrics stage records it.
StageDecisions ==
    /\ call.fn = "shouldTrace"
    /\ ~call.done
    /\ call' = [call EXCEPT !.done = TRUE,
                            !.traced = shouldTrace(call.path),
                            !.collected = shouldCollectMetrics(call.path)]
    /\ UNCHANGED <<mainPc, tracingErr, signals, isShuttingDown, listener, elapsed, deadline, srvErr, tpErr,
                   tp, allowFallback, poolClosed, connsOut, steps, seen503, req,
                   requestsInFlight, exitCode, startFailure>>

\* ------------------------------------------------------------ durations
\* The values the two variables are set to; <<>> is an unset (or empty)
\* variable, for which os.Getenv returns "".
EnvValues == Strings({"-", "0", "1", "3", "6", "m", "s"}, MaxEnvLen)

IsDigit(ch) == ch \in {"0", "1", "2", "3", "4", "5", "6", "7", "8", "9"}

DigitValue(ch) ==
    CASE ch = "0" -> 0 [] ch = "1" -> 1 [] ch = "2" -> 2 [] ch = "3" -> 3
      [] ch = "4" -> 4 [] ch = "5" -> 5 [] ch = "6" -> 6 [] ch = "7" -> 7
      [] ch = "8" -> 8 [] OTHER -> 9

\* time.ParseDuration's leadingInt: the number the leading digits spell, and
\* the rest of the text.
RECURSIVE leadingInt(_, _)
leadingInt(str, x) ==
    IF str # <<>> /\ IsDigit(Head(str))
    THEN leadingInt(Tail(str), x * 10 + DigitValue(Head(str)))
    ELSE [x |-> x, rest |-> str]

\* The unit: the characters up to the next digit or ".".
RECURSIVE unitOf(_, _)
unitOf(str, u) ==
    IF str # <<>> /\ ~IsDigit(Head(str)) /\ Head(str) # "."
    THEN unitOf(Tail(str), Append(u, Head(str)))
    ELSE [u |-> u, rest |-> str]

\* time.ParseDuration's unitMap, a duration being counted in milliseconds
\* here; 0 stands for a unit that is not in the map ("ns", "us" and "h"
\* cannot be spelled with the characters of EnvValues).
unitMap(u) ==
    CASE u = <<"m", "s">> -> 1
      [] u = <<"s">> -> 1000
      [] u = <<"m">> -> 60000
      [] OTHER -> 0

\* The loop of time.ParseDuration over the groups "<digits><unit>".
RECURSIVE parseGroups(_, _)
parseGroups(str, d) ==
    IF str = <<>> THEN [err |-> FALSE, d |-> d]
    ELSE IF ~IsDigit(Head(str)) THEN [err |-> TRUE, d |-> 0]
    ELSE LET n == leadingInt(str, 0)
             u == unitOf(n.rest, <<>>)
         IN IF u.u = <<>> \/ unitMap(u.u) = 0
            THEN [err |-> TRUE, d |-> 0]
            ELSE parseGroups(u.rest, d + n.x * unitMap(u.u))

\* time.ParseDuration: [-+]?([0-9]*(\.[0-9]*)?[a-z]+)+, or "0".
ParseDuration(str) ==
    LET neg == str # <<>> /\ Head(str) = "-"
        body == IF str # <<>> /\ Head(str) \in {"-", "+"} THEN Tail(str) ELSE str
    IN IF body = <<"0">> THEN [err |-> FALSE, d |-> 0]
       ELSE IF body = <<>> THEN [err |-> TRUE, d |-> 0]
       ELSE LET g == parseGroups(body, 0)
            IN IF g.err THEN g
               ELSE [err |-> FALSE, d |-> IF neg THEN 0 - g.d ELSE g.d]

\* int(timeout.Seconds()): the whole seconds of a duration, rounded towards 0.
WholeSeconds(d) == IF d >= 0 THEN d \div 1000 ELSE 0 - ((0 - d) \div 1000)

\* Faulty variant of getEnvDurationSecondsWithMax: "<" for "<=", so that a
\* duration of less than a second is kept as 0.
getEnvDurationSecondsWithMax_ZeroKept(value, defaultValueSeconds, maxSeconds) ==
    IF value = <<>> THEN defaultValueSeconds
    ELSE LET timeout == ParseDuration(value) IN
         IF timeout.err THEN defaultValueSeconds
         ELSE LET seconds == WholeSeconds(timeout.d) IN
              IF seconds < 0 \/ seconds > maxSeconds
              THEN defaultValueSeconds
              ELSE seconds

\* getEnvDurationSecondsWithMax, value being what os.Getenv(key) returns.
getEnvDurationSecondsWithMax(value, defaultValueSeconds, maxSeconds) ==
    IF value = <<>> THEN defaultValueSeconds
    ELSE LET timeout == ParseDuration(value) IN
         IF timeout.err THEN defaultValueSeconds
         ELSE LET seconds == WholeSeconds(timeout.d) IN
              IF seconds <= 0 \/ seconds > maxSeconds
              THEN defaultValueSeconds
              ELSE seconds

\* getEnvDurationSeconds: the same code with maxSeconds the constant 60.
getEnvDurationSeconds(value, defaultValueSeconds) ==
    getEnvDurationSecondsWithMax(value, defaultValueSeconds, MaxShutdownTimeout)

\* config.Load: the ShutdownTimeout and ReadinessDrainDelay fields, for one
\* value of SHUTDOWN_TIMEOUT and one of READINESS_DRAIN_DELAY.
Load ==
    /\ call.fn = "Load"
    /\ ~call.done
    /\ call' = [call EXCEPT
                  !.done = TRUE,
                  !.ShutdownTimeout =
                      getEnvDurationSeconds(call.SHUTDOWN_TIMEOUT, DefaultShutdownTimeout),
                  !.ReadinessDrainDelay =
                      getEnvDurationSecondsWithMax(call.READINESS_DRAIN_DELAY,
                          DefaultReadinessDrainDelay, MaxReadinessDrainDelay)]
    /\ UNCHANGED <<mainPc, tracingErr, signals, isShuttingDown, listener, elapsed, deadline, srvErr, tpErr,
                   tp, allowFallback, poolClosed, connsOut, steps, seen503, req,
                   requestsInFlight, exitCode, startFailure>>

\* ------------------------------------------------------- request goroutines
\* The listener accepts a request; TracingMiddleware, LoggingMiddleware and
\* PrometheusMiddleware run up to their c.Next().  Requests are numbered in
\* their order of arrival.
ReqArrive(r, t, h) ==
    /\ mainPc # "exited"
    /\ listener = "listening"
    /\ req[r].pc = "idle"
    /\ r > 1 => req[r - 1].pc # "idle"
    /\ req' = [req EXCEPT ![r] =
                 [@ EXCEPT !.pc = IF Protected(t) THEN "auth" ELSE "handler",
                           !.target = t,
                           !.authHeader = h,
                           !.status = 200,
                           !.after503 = seen503,
                           !.stages = StagesIn,
                           !.obs = IF shouldCollectMetrics(t.path)
                                   THEN PromBefore
                                   ELSE <<>>]]
    /\ requestsInFlight' = IF shouldCollectMetrics(t.path)
                           THEN [requestsInFlight EXCEPT ![t] = @ + 1]
                           ELSE requestsInFlight
    /\ UNCHANGED <<mainVars, elapsed, connsOut, seen503>>

\* AuthMiddleware on a profileGroup route: continue to the handler, or abort
\* with 401 and unwind the chain.
ReqAuth(r, resp) ==
    /\ mainPc # "exited"
    /\ req[r].pc = "auth"
    /\ LET d == AuthMiddleware(req[r].authHeader, resp, allowFallback)
           rq == [req[r] EXCEPT !.userID = d.userID, !.authCalls = d.calls,
                                !.authResp = d.resp,
                                !.stages = Append(@, Stage("auth", "start"))]
       IN IF d.next
          THEN /\ req' = [req EXCEPT ![r] = [rq EXCEPT !.pc = "handler"]]
               /\ UNCHANGED requestsInFlight
          ELSE /\ req' = [req EXCEPT ![r] =
                            Unwound([rq EXCEPT !.rejectedBy = "auth"], d.status, d.body)]
               /\ requestsInFlight' = GaugeDec(req[r].target)
    /\ UNCHANGED <<mainVars, elapsed, connsOut, seen503>>

\* Faulty variant of ReadyAnswer: the test of the flag is inverted.
ReadyAnswer_Inverted(draining) ==
    IF ~draining
    THEN [status |-> 503, body |-> "shutting_down"]
    ELSE [status |-> 200, body |-> "ok"]

\* The /ready handler: the answer for the value isShuttingDown.Load() returned.
ReadyAnswer(draining) ==
    IF draining
    THEN [status |-> 503, body |-> "shutting_down"]
    ELSE [status |-> 200, body |-> "ok"]

\* Faulty variant of HealthAnswer: /health follows the readiness flag.
HealthAnswer_FollowsFlag(draining) ==
    IF draining
    THEN [status |-> 503, body |-> "shutting_down"]
    ELSE [status |-> 200, body |-> "ok"]

\* The /health handler: c.JSON(200, {"status": "ok"}), whatever the value of
\* isShuttingDown is; the handler does not read it.
HealthAnswer(draining) == [status |-> 200, body |-> "ok"]

\* The handlers that answer at once: /health, /ready, /metrics, GetUser (mock
\* data), CreateUser when the body does not bind or the pool refuses the
\* query, and the profile handlers when user_id is empty, the body does not
\* bind (PUT only) or the pool refuses the query.  A request no route matches
\* is answered 404 by gin after the engine's middlewares have run.
ImmediateAnswers(rq) ==
    LET h == Route(rq.target) IN
    CASE h = "health" -> {HealthAnswer(isShuttingDown)}
      [] h = "ready" -> {ReadyAnswer(isShuttingDown)}
      [] h = "metrics" -> {[status |-> 200, body |-> "metrics"]}
      [] h = "GetUser" -> {[status |-> 200, body |-> "user"]}
      [] h = "CreateUser" ->
            {[status |-> 400, body |-> "Invalid request"]}
            \cup (IF poolClosed
                  THEN {[status |-> 500, body |-> "Internal server error"]} ELSE {})
      [] h \in {"GetProfile", "UpdateProfile"} ->
            IF rq.userID = ""
            THEN {[status |-> 401, body |-> "Authentication required"]}
            ELSE (IF h = "UpdateProfile"
                  THEN {[status |-> 400, body |-> "Invalid request"]} ELSE {})
                 \cup (IF poolClosed
                       THEN {[status |-> 500, body |-> "Internal server error"]} ELSE {})
      [] OTHER -> {[status |-> 404, body |-> "404 page not found"]}

\* TRUE when the handler goes on to query the database.
QueriesPool(rq) ==
    /\ \/ Route(rq.target) = "CreateUser"
       \/ Route(rq.target) \in {"GetProfile", "UpdateProfile"} /\ rq.userID # ""
    /\ ~poolClosed

ReqHandler(r) ==
    /\ mainPc # "exited"
    /\ req[r].pc = "handler"
    /\ LET rq == [req[r] EXCEPT !.handlerInvoked = TRUE,
                                !.stages = Append(@, Stage("handler", "start")),
                                !.flagRead = IF Route(req[r].target) = "ready"
                                             THEN (IF isShuttingDown THEN "draining" ELSE "serving")
                                             ELSE "none"]
       IN \/ \E a \in ImmediateAnswers(rq) :
                /\ req' = [req EXCEPT ![r] = Unwound(rq, a.status, a.body)]
                /\ requestsInFlight' = GaugeDec(rq.target)
                /\ seen503' = (seen503 \/ (Route(rq.target) = "ready" /\ a.status = 503))
                /\ UNCHANGED connsOut
          \/ /\ QueriesPool(rq)
             /\ req' = [req EXCEPT ![r] = [rq EXCEPT !.pc = "inHandler"]]
             /\ connsOut' = connsOut + 1
             /\ UNCHANGED <<requestsInFlight, seen503>>
    /\ UNCHANGED <<mainVars, elapsed>>

\* The query of a profile handler or of CreateUser ends: the connection goes
\* back to the pool and the handler answers, or panics.
HandlerOutcomes == {"ok", "db_error", "panic"}

ReqHandlerReturn(r, outcome) ==
    /\ mainPc # "exited"
    /\ req[r].pc = "inHandler"
    /\ connsOut' = connsOut - 1
    /\ IF outcome = "panic"
       THEN /\ req' = [req EXCEPT ![r] = Recovered(@)]
            /\ UNCHANGED requestsInFlight
       ELSE /\ req' = [req EXCEPT ![r] =
                         IF outcome = "ok"
                         THEN Unwound(@, IF Route(@.target) = "CreateUser"
                                         THEN 201 ELSE 200, "user")
                         ELSE Unwound(@, 500, "Internal server error")]
            /\ requestsInFlight' = GaugeDec(req[r].target)
    /\ UNCHANGED <<mainVars, elapsed, seen503>>

\* ------------------------------------------------------- the main goroutine
Call(name, by) == [call |-> name, by |-> by]

\* <-ctx.Done() returns on SIGTERM or SIGINT; isShuttingDown.Store(true);
\* time.Sleep(drainDelay) begins.
SignalReceived ==
    /\ mainPc = "waitSignal"
    /\ mainPc' = "sleep"
    /\ isShuttingDown' = TRUE
    /\ steps' = Append(steps, Call("isShuttingDown.Store", "runGracefulShutdown"))
    /\ signals' = 1
    /\ UNCHANGED <<call, tracingErr, listener, elapsed, deadline, srvErr, tpErr, tp, allowFallback, exitCode, startFailure,
                   poolClosed, connsOut, seen503, req, requestsInFlight>>

\* Faulty variant of SecondSignal: a further signal starts the sequence again
\* from the readiness flag.
SecondSignal_Restarts ==
    /\ mainPc \in {"sleep", "srvShutdown", "poolClose", "tpShutdown", "stopProfiling"}
    /\ signals < MaxSignals
    /\ signals' = signals + 1
    /\ mainPc' = "sleep"
    /\ steps' = Append(steps, Call("isShuttingDown.Store", "runGracefulShutdown"))
    /\ UNCHANGED <<call, tracingErr, isShuttingDown, listener, elapsed, deadline, srvErr,
                   tpErr, tp, allowFallback, exitCode, startFailure, poolClosed,
                   connsOut, seen503, req, requestsInFlight>>

\* A further SIGTERM or SIGINT between <-ctx.Done() and the deferred stop():
\* signal.NotifyContext still holds the registration, so the signal does not
\* end the process; ctx is already done and nothing in runGracefulShutdown
\* reads it again.
SecondSignal ==
    /\ mainPc \in {"sleep", "srvShutdown", "poolClose", "tpShutdown", "stopProfiling"}
    /\ signals < MaxSignals
    /\ signals' = signals + 1
    /\ UNCHANGED <<call, tracingErr, mainPc, steps, isShuttingDown, listener, elapsed,
                   deadline, srvErr, tpErr, tp, allowFallback, exitCode, startFailure,
                   poolClosed, connsOut, seen503, req, requestsInFlight>>

\* Faulty variant of DrainDelayElapsed: the pool is closed before srv.Shutdown
\* is called.
DrainDelayElapsed_PoolFirst ==
    /\ mainPc = "sleep"
    /\ elapsed >= ReadinessDrainDelay
    /\ mainPc' = "srvShutdown"
    /\ deadline' = elapsed + ShutdownTimeout
    /\ listener' = "closed"
    /\ poolClosed' = TRUE
    /\ steps' = steps \o <<Call("time.Sleep", "runGracefulShutdown"),
                           Call("pool.Close", "runGracefulShutdown"),
                           Call("srv.Shutdown", "runGracefulShutdown")>>
    /\ UNCHANGED <<call, tracingErr, signals, isShuttingDown, elapsed, srvErr, tpErr, tp, allowFallback, exitCode, startFailure,
                   connsOut, seen503, req, requestsInFlight>>

\* Faulty variant of DrainDelayElapsed: the readiness flag is cleared when the
\* drain delay is over.
DrainDelayElapsed_ResetsFlag ==
    /\ mainPc = "sleep"
    /\ elapsed >= ReadinessDrainDelay
    /\ mainPc' = "srvShutdown"
    /\ deadline' = elapsed + ShutdownTimeout
    /\ listener' = "closed"
    /\ isShuttingDown' = FALSE
    /\ steps' = steps \o <<Call("time.Sleep", "runGracefulShutdown"),
                           Call("srv.Shutdown", "runGracefulShutdown")>>
    /\ UNCHANGED <<call, tracingErr, signals, elapsed, srvErr, tpErr, tp, allowFallback, exitCode, startFailure,
                   poolClosed, connsOut, seen503, req, requestsInFlight>>

\* Faulty variant of DrainDelayElapsed: srv.Shutdown is not called, the
\* listener keeps accepting.
DrainDelayElapsed_KeepsListening ==
    /\ mainPc = "sleep"
    /\ elapsed >= ReadinessDrainDelay
    /\ mainPc' = "srvShutdown"
    /\ deadline' = elapsed + ShutdownTimeout
    /\ steps' = steps \o <<Call("time.Sleep", "runGracefulShutdown")>>
    /\ UNCHANGED <<call, tracingErr, signals, isShuttingDown, listener, elapsed, srvErr, tpErr, tp, allowFallback, exitCode, startFailure,
                   poolClosed, connsOut, seen503, req, requestsInFlight>>

\* time.Sleep returns; shutdownCtx is created with its deadline; srv.Shutdown
\* is called and closes the listener.
DrainDelayElapsed ==
    /\ mainPc = "sleep"
    /\ elapsed >= ReadinessDrainDelay
    /\ mainPc' = "srvShutdown"
    /\ deadline' = elapsed + ShutdownTimeout
    /\ listener' = "closed"
    /\ steps' = steps \o <<Call("time.Sleep", "runGracefulShutdown"),
                           Call("srv.Shutdown", "runGracefulShutdown")>>
    /\ UNCHANGED <<call, tracingErr, signals, isShuttingDown, elapsed, srvErr, tpErr, tp, allowFallback, exitCode, startFailure,
                   poolClosed, connsOut, seen503, req, requestsInFlight>>

\* Faulty variant of SrvShutdownReturn: an error of srv.Shutdown ends the
\* sequence at once.
SrvShutdownReturn_Abort(err) ==
    /\ mainPc = "srvShutdown"
    /\ \/ InFlight = {}
       \/ elapsed >= deadline /\ err
    /\ srvErr' = err
    /\ mainPc' = IF err THEN "exited" ELSE "poolClose"
    /\ poolClosed' = IF err THEN poolClosed ELSE TRUE
    /\ steps' = IF err THEN steps
                ELSE Append(steps, Call("pool.Close", "runGracefulShutdown"))
    /\ UNCHANGED <<call, tracingErr, signals, isShuttingDown, listener, elapsed, deadline, tpErr, tp, allowFallback, exitCode, startFailure,
                   connsOut, seen503, req, requestsInFlight>>

\* srv.Shutdown returns: nil or a listener close error once no request is in
\* flight, ctx.Err() once the deadline has passed.  pool.Close() is called next
\* whatever it returned.
SrvShutdownReturn(err) ==
    /\ mainPc = "srvShutdown"
    /\ \/ InFlight = {}
       \/ elapsed >= deadline /\ err
    /\ srvErr' = err
    /\ mainPc' = "poolClose"
    /\ poolClosed' = TRUE
    /\ steps' = Append(steps, Call("pool.Close", "runGracefulShutdown"))
    /\ UNCHANGED <<call, tracingErr, signals, isShuttingDown, listener, elapsed, deadline, tpErr, tp, allowFallback, exitCode, startFailure,
                   connsOut, seen503, req, requestsInFlight>>

\* pool.Close() returns once every connection is back in the pool; it takes no
\* context.  tp.Shutdown(shutdownCtx) is called next if there is a provider.
PoolCloseReturn ==
    /\ mainPc = "poolClose"
    /\ connsOut = 0
    /\ mainPc' = IF tp THEN "tpShutdown" ELSE "stopProfiling"
    /\ steps' = IF tp THEN Append(steps, Call("tp.Shutdown", "runGracefulShutdown")) ELSE steps
    /\ UNCHANGED <<call, tracingErr, signals, isShuttingDown, listener, elapsed, deadline, srvErr, tpErr, tp,
                   allowFallback, exitCode, startFailure, poolClosed, connsOut, seen503, req, requestsInFlight>>

\* Faulty variant of TracerShutdownReturn: tp.Shutdown is given a context of
\* its own, so it can end without error after shutdownCtx has expired.
TracerShutdownReturn_FreshTimeout(err) ==
    /\ mainPc = "tpShutdown"
    /\ tpErr' = err
    /\ mainPc' = "stopProfiling"
    /\ UNCHANGED <<call, tracingErr, signals, isShuttingDown, listener, elapsed, deadline, srvErr, tp, allowFallback, exitCode, startFailure,
                   poolClosed, connsOut, steps, seen503, req, requestsInFlight>>

\* tp.Shutdown returns, with an error if the deadline has passed.
TracerShutdownReturn(err) ==
    /\ mainPc = "tpShutdown"
    /\ elapsed >= deadline => err
    /\ tpErr' = err
    /\ mainPc' = "stopProfiling"
    /\ UNCHANGED <<call, tracingErr, signals, isShuttingDown, listener, elapsed, deadline, srvErr, tp, allowFallback, exitCode, startFailure,
                   poolClosed, connsOut, steps, seen503, req, requestsInFlight>>

\* middleware.StopProfiling(); "Graceful shutdown complete" is logged.
StopProfiling ==
    /\ mainPc = "stopProfiling"
    /\ mainPc' = "complete"
    /\ steps' = Append(steps, Call("StopProfiling", "runGracefulShutdown"))
    /\ UNCHANGED <<call, tracingErr, signals, isShuttingDown, listener, elapsed, deadline, srvErr, tpErr, tp,
                   allowFallback, exitCode, startFailure, poolClosed, connsOut, seen503, req, requestsInFlight>>

\* Faulty variant of MainReturn: main has no deferred pool.Close().
MainReturn_NoDefer ==
    /\ mainPc = "complete"
    /\ mainPc' = "exited"
    /\ exitCode' = 0
    /\ UNCHANGED <<call, tracingErr, signals, isShuttingDown, listener, elapsed, deadline, srvErr, tpErr, tp,
                   allowFallback, startFailure, poolClosed, connsOut, steps, seen503,
                   req, requestsInFlight>>

\* runGracefulShutdown returns to main, main returns: the deferred
\* pool.Close() runs (on a pool that is closed already) and the process exits
\* with code 0.
MainReturn ==
    /\ mainPc = "complete"
    /\ mainPc' = "exited"
    /\ steps' = Append(steps, Call("pool.Close", "main.defer"))
    /\ exitCode' = 0
    /\ UNCHANGED <<call, tracingErr, signals, isShuttingDown, listener, elapsed, deadline, srvErr, tpErr, tp,
                   allowFallback, startFailure, poolClosed, connsOut, seen503, req,
                   requestsInFlight>>

\* One tick of the clock.  Time passes only while the main goroutine waits:
\* in time.Sleep, in srv.Shutdown and tp.Shutdown up to the deadline, and in
\* pool.Close for as long as a connection is out.
Tick ==
    /\ elapsed < MaxTime
    /\ \/ mainPc = "sleep" /\ elapsed < ReadinessDrainDelay
       \/ mainPc = "srvShutdown" /\ elapsed < deadline /\ InFlight # {}
       \/ mainPc = "poolClose" /\ connsOut > 0
       \/ mainPc = "tpShutdown" /\ elapsed < deadline
    /\ elapsed' = elapsed + 1
    /\ UNCHANGED <<mainVars, connsOut, seen503, req, requestsInFlight>>

\* ------------------------------------------------------------------ startup
\* main up to runGracefulShutdown's wait for the signal.  A panic ends the
\* process with exit code 2 (the Go runtime's code for an unrecovered panic).

\* cfg := config.Load(); cfg.Validate(): panic when the configuration is invalid.
ValidateConfig(valid) ==
    /\ mainPc = "validate"
    /\ mainPc' = IF valid THEN "newLogger" ELSE "exited"
    /\ exitCode' = IF valid THEN exitCode ELSE 2
    /\ startFailure' = IF valid THEN startFailure ELSE "config"
    /\ UNCHANGED <<call, tracingErr, signals, isShuttingDown, listener, elapsed, deadline, srvErr, tpErr, tp,
                   allowFallback, poolClosed, connsOut, steps, seen503, req,
                   requestsInFlight>>

\* middleware.NewLogger(): main panics on an error.
NewLogger(ok) ==
    /\ mainPc = "newLogger"
    /\ mainPc' = IF ok THEN "initTracing" ELSE "exited"
    /\ exitCode' = IF ok THEN exitCode ELSE 2
    /\ startFailure' = IF ok THEN startFailure ELSE "logger"
    /\ UNCHANGED <<call, tracingErr, signals, isShuttingDown, listener, elapsed, deadline, srvErr,
                   tpErr, tp, allowFallback, poolClosed, connsOut, steps, seen503, req,
                   requestsInFlight>>

\* Faulty variant of initTracing: the provider InitTracing returned is handed
\* on whatever its error, so that a nil *TracerProvider reaches the teardown
\* as a non-nil interface value.
initTracing_ReturnsProviderAnyway(enabled, exporterErr) ==
    /\ mainPc = "initTracing"
    /\ mainPc' = "connect"
    /\ tracingErr' = (enabled /\ exporterErr)
    /\ tp' = enabled
    /\ UNCHANGED <<call, signals, isShuttingDown, listener, elapsed, deadline, srvErr, tpErr,
                   allowFallback, poolClosed, connsOut, steps, seen503, req,
                   requestsInFlight, exitCode, startFailure>>

\* initTracing: nil when cfg.Tracing.Enabled is false; otherwise
\* middleware.InitTracing, whose endpoint and sample-rate checks cfg.Validate
\* has already passed, so that it fails only when the exporter cannot be
\* created; the error is logged as a warning and nil is returned.  Then
\* initProfiling, which leaves nothing for the teardown to test.
initTracing(enabled, exporterErr) ==
    /\ mainPc = "initTracing"
    /\ mainPc' = "connect"
    /\ tracingErr' = (enabled /\ exporterErr)
    /\ tp' = (enabled /\ ~exporterErr)
    /\ UNCHANGED <<call, signals, isShuttingDown, listener, elapsed, deadline, srvErr, tpErr,
                   allowFallback, poolClosed, connsOut, steps, seen503, req,
                   requestsInFlight, exitCode, startFailure>>

\* database.Connect: on error main logs "Failed to connect to database" at
\* level error and returns, so the process exits with code 0.  On success
\* setupServer builds the server and runGracefulShutdown starts the goroutine
\* that calls srv.ListenAndServe, then waits for the signal.
Connect(ok) ==
    /\ mainPc = "connect"
    /\ mainPc' = IF ok THEN "waitSignal" ELSE "exited"
    /\ exitCode' = IF ok THEN exitCode ELSE 0
    /\ startFailure' = IF ok THEN startFailure ELSE "database"
    /\ listener' = IF ok THEN "binding" ELSE listener
    /\ UNCHANGED <<call, tracingErr, signals, isShuttingDown, elapsed, deadline, srvErr, tpErr, tp,
                   allowFallback, poolClosed, connsOut, steps, seen503, req,
                   requestsInFlight>>

\* The goroutine's srv.ListenAndServe(): the listener is bound, or the error
\* is logged at level error and the goroutine ends; main goes on waiting.
ListenAndServe(bound) ==
    /\ mainPc # "exited"
    /\ listener = "binding"
    /\ listener' = IF bound THEN "listening" ELSE "failed"
    /\ startFailure' = IF bound THEN startFailure ELSE "listen"
    /\ UNCHANGED <<call, tracingErr, signals, mainPc, isShuttingDown, elapsed, deadline, srvErr, tpErr, tp,
                   allowFallback, poolClosed, connsOut, steps, seen503, req,
                   requestsInFlight, exitCode>>

\* One step of the system with requests r \in R sending targets T with
\* Authorization headers H, and the identity service answering from A.
NextWith(R, T, H, A) ==
    \/ \E r \in R, t \in T, h \in H : ReqArrive(r, t, h)
    \/ \E r \in R, resp \in A : ReqAuth(r, resp)
    \/ \E r \in R : ReqHandler(r)
    \/ \E r \in R, outcome \in HandlerOutcomes : ReqHandlerReturn(r, outcome)
    \/ SignalReceived
    \/ DrainDelayElapsed
    \/ \E err \in BOOLEAN : SrvShutdownReturn(err)
    \/ PoolCloseReturn
    \/ \E err \in BOOLEAN : TracerShutdownReturn(err)
    \/ StopProfiling
    \/ MainReturn
    \/ Tick

\* Concurrent requests against the shutdown sequence: MaxReq requests, each a
\* readiness probe or a profile read, without a credential or with a token.
Next == NextWith(Reqs, CoreTargets, CoreHeaders, CoreResponses)

Spec == Init /\ [][Next]_vars

\* The middleware chain on every kind of request: MaxChainReq requests with
\* every target, header and identity-service answer.
NextChain == NextWith(ChainReqs, Targets, Headers, AuthResponses)

SpecChain == Init /\ [][NextChain]_vars

\* Liveness and readiness probes against the shutdown sequence: MaxReq
\* requests, each GET /health, GET /ready or a profile read with a token the
\* identity service accepts.
NextProbes == NextWith(Reqs, ProbeTargets, {HdrBearerTok}, {"ok"})

SpecProbes == Init /\ [][NextProbes]_vars

\* The shutdown sequence with further signals arriving while it runs.
NextSignals ==
    \/ NextWith(ChainReqs, CoreTargets, CoreHeaders, CoreResponses)
    \/ SecondSignal

SpecSignals == Init /\ [][NextSignals]_vars

\* The process from the start of main: startup, then the same steps with
\* MaxChainReq requests.
InitStartup ==
    /\ mainPc = "validate"
    /\ isShuttingDown = FALSE
    /\ listener = "none"
    /\ elapsed = 0
    /\ deadline = -1
    /\ srvErr = FALSE
    /\ tpErr = FALSE
    /\ tp = FALSE
    /\ tracingErr = FALSE
    /\ signals = 0
    /\ allowFallback \in BOOLEAN
    /\ poolClosed = FALSE
    /\ connsOut = 0
    /\ steps = <<>>
    /\ seen503 = FALSE
    /\ req = [r \in Reqs |-> IdleReq]
    /\ requestsInFlight = [t \in Targets |-> 0]
    /\ exitCode = -1
    /\ startFailure = "none"
    /\ call = NoCall

NextStartup ==
    \/ \E valid \in BOOLEAN : ValidateConfig(valid)
    \/ \E ok \in BOOLEAN : NewLogger(ok)
    \/ \E enabled \in BOOLEAN, exporterErr \in BOOLEAN : initTracing(enabled, exporterErr)
    \/ \E ok \in BOOLEAN : Connect(ok)
    \/ \E bound \in BOOLEAN : ListenAndServe(bound)
    \/ NextWith(ChainReqs, CoreTargets, CoreHeaders, CoreResponses)

SpecStartup == InitStartup /\ [][NextStartup]_vars

\* LoggingMiddleware's trace-id on its own, for every combination of the
\* traceparent and X-Trace-ID request headers.
InitTrace ==
    /\ mainPc = "waitSignal"
    /\ isShuttingDown = FALSE
    /\ listener = "listening"
    /\ elapsed = 0
    /\ deadline = -1
    /\ srvErr = FALSE
    /\ tpErr = FALSE
    /\ tp = FALSE
    /\ tracingErr = FALSE
    /\ signals = 0
    /\ allowFallback = FALSE
    /\ poolClosed = FALSE
    /\ connsOut = 0
    /\ steps = <<>>
    /\ seen503 = FALSE
    /\ req = [r \in Reqs |-> IdleReq]
    /\ requestsInFlight = [t \in Targets |-> 0]
    /\ exitCode = -1
    /\ startFailure = "none"
    /\ call \in [fn : {"GetTraceID"}, traceparent : TraceParents, xTraceID : XTraceIDs,
                  rand : RandomBytes, out : {<<>>}, done : {FALSE}]

NextTrace == LoggingTraceID

SpecTrace == InitTrace /\ [][NextTrace]_vars

\* config.Load's two durations on their own.  One of the two variables takes
\* every value of EnvValues while the other is unset or set to "3s".
InitLoad ==
    /\ mainPc = "validate"
    /\ isShuttingDown = FALSE
    /\ listener = "none"
    /\ elapsed = 0
    /\ deadline = -1
    /\ srvErr = FALSE
    /\ tpErr = FALSE
    /\ tp = FALSE
    /\ tracingErr = FALSE
    /\ signals = 0
    /\ allowFallback = FALSE
    /\ poolClosed = FALSE
    /\ connsOut = 0
    /\ steps = <<>>
    /\ seen503 = FALSE
    /\ req = [r \in Reqs |-> IdleReq]
    /\ requestsInFlight = [t \in Targets |-> 0]
    /\ exitCode = -1
    /\ startFailure = "none"
    /\ call \in [fn : {"Load"}, SHUTDOWN_TIMEOUT : EnvValues,
                  READINESS_DRAIN_DELAY : EnvValues,
                  ShutdownTimeout : {0}, ReadinessDrainDelay : {0}, done : {FALSE}]
    /\ \/ call.SHUTDOWN_TIMEOUT \in {<<>>, <<"3", "s">>}
       \/ call.READINESS_DRAIN_DELAY \in {<<>>, <<"3", "s">>}

NextLoad == Load

SpecLoad == InitLoad /\ [][NextLoad]_vars

\* The exemption decisions of the trace and the metrics stage on their own,
\* for every path of RequestPaths.
InitPaths ==
    /\ mainPc = "waitSignal"
    /\ isShuttingDown = FALSE
    /\ listener = "listening"
    /\ elapsed = 0
    /\ deadline = -1
    /\ srvErr = FALSE
    /\ tpErr = FALSE
    /\ tp = FALSE
    /\ tracingErr = FALSE
    /\ signals = 0
    /\ allowFallback = FALSE
    /\ poolClosed = FALSE
    /\ connsOut = 0
    /\ steps = <<>>
    /\ seen503 = FALSE
    /\ req = [r \in Reqs |-> IdleReq]
    /\ requestsInFlight = [t \in Targets |-> 0]
    /\ exitCode = -1
    /\ startFailure = "none"
    /\ call \in [fn : {"shouldTrace"}, path : RequestPaths, traced : {FALSE},
                  collected : {FALSE}, done : {FALSE}]

NextPaths == StageDecisions

SpecPaths == InitPaths /\ [][NextPaths]_vars

TypeOK ==
    /\ mainPc \in {"validate", "newLogger", "initTracing", "connect", "waitSignal", "sleep",
                   "srvShutdown", "poolClose", "tpShutdown", "stopProfiling",
                   "complete", "exited"}
    /\ listener \in {"none", "binding", "listening", "failed", "closed"}
    /\ exitCode \in {-1, 0, 2}
    /\ elapsed \in 0..MaxTime
    /\ connsOut \in 0..MaxReq

\* ================================================================== claims
Calls(name) == {i \in 1..Len(steps) : steps[i].call = name}
Called(name) == Calls(name) # {}
FirstCall(name) == CHOOSE i \in Calls(name) : \A j \in Calls(name) : i <= j
SignalSeen == mainPc # "waitSignal"

\* C1: after the termination signal the shutdown sequence is over, and the
\* process has exited, within drain delay + shutdown timeout: no teardown step
\* is still running once the clock has passed that bound.
C1_ExitsWithinBound ==
    (SignalSeen /\ elapsed > ReadinessDrainDelay + ShutdownTimeout) => mainPc = "exited"

\* C2: the teardown steps occur in the order readiness flag, drain delay,
\* listener shutdown, pool close, tracer shutdown, profiling stop; a step that
\* has occurred is preceded by all the steps before it (the tracer step is
\* absent when there is no provider), and the listener is closed before the
\* pool or the tracer is touched.
TeardownOrder ==
    <<"isShuttingDown.Store", "time.Sleep", "srv.Shutdown", "pool.Close",
      "tp.Shutdown", "StopProfiling">>

C2_TeardownOrder ==
    /\ \A i, j \in 1..Len(TeardownOrder) :
          (i < j /\ Called(TeardownOrder[j]) /\ (TeardownOrder[i] = "tp.Shutdown" => tp))
             => /\ Called(TeardownOrder[i])
                /\ FirstCall(TeardownOrder[i]) < FirstCall(TeardownOrder[j])
    /\ Called("tp.Shutdown") => tp
    /\ (poolClosed \/ Called("pool.Close") \/ Called("tp.Shutdown")) => listener = "closed"
    /\ listener = "closed" => isShuttingDown

C2_Witness ==
    /\ mainPc = "exited"
    /\ tp
    /\ Called("tp.Shutdown")
    /\ Called("StopProfiling")

\* C3: an error of one teardown step does not end the sequence: when
\* srv.Shutdown returned an error the pool is closed all the same and the
\* tracer is shut down after it, and when srv.Shutdown or tp.Shutdown returned
\* an error the sequence ends only after "Graceful shutdown complete".
C3_StepFailureDoesNotAbort ==
    /\ srvErr => Called("pool.Close") /\ poolClosed
    /\ (srvErr /\ tp /\ mainPc \in {"tpShutdown", "stopProfiling", "complete", "exited"})
          => Called("tp.Shutdown")
    /\ tpErr => mainPc \in {"stopProfiling", "complete", "exited"}
    /\ mainPc = "exited"
          => Called("pool.Close") /\ (tp => Called("tp.Shutdown")) /\ Called("StopProfiling")

C3_Witness ==
    /\ mainPc = "exited"
    /\ srvErr
    /\ tpErr

\* C4 (as claimed): on a run that reaches shutdown and exits, pool.Close and
\* tp.Shutdown have each been called exactly once, by the shutdown sequence.
C4_ClosedExactlyOnce ==
    mainPc = "exited" =>
        /\ Cardinality(Calls("pool.Close")) = 1
        /\ Cardinality(Calls("tp.Shutdown")) = 1
        /\ \A i \in 1..Len(steps) : steps[i].by = "runGracefulShutdown"

\* C4 (amended): pool.Close is called by the main goroutine only: once by the
\* shutdown sequence and once more, on the closed pool, by main's deferred
\* call after the sequence has returned; tp.Shutdown is called once by the
\* shutdown sequence when there is a provider and never otherwise; no request
\* goroutine calls either.
C4_CloseCalls ==
    /\ \A i \in 1..Len(steps) : steps[i].by \in {"runGracefulShutdown", "main.defer"}
    /\ Cardinality(Calls("pool.Close")) <= 2
    /\ Cardinality(Calls("tp.Shutdown")) <= 1
    /\ mainPc = "exited" =>
          /\ Cardinality(Calls("pool.Close")) = 2
          /\ \E i, j \in Calls("pool.Close") :
                /\ i < j
                /\ steps[i].by = "runGracefulShutdown"
                /\ steps[j].by = "main.defer"
          /\ Cardinality(Calls("tp.Shutdown")) = (IF tp THEN 1 ELSE 0)
          /\ \A i \in Calls("tp.Shutdown") : steps[i].by = "runGracefulShutdown"

C4_Witness ==
    /\ mainPc = "exited"
    /\ tp
    /\ \E r \in Reqs : req[r].handlerInvoked

\* C5: when no request is in progress, the requests_in_flight gauge of every
\* (method, path) is back at the value it had before the requests started,
\* however they ended (normally, rejected by the auth stage, by a panic).
C5_GaugeRestored ==
    InFlight = {} => \A t \in Targets : requestsInFlight[t] = 0

C5_Witness ==
    \E r \in Reqs :
        /\ req[r].pc = "done"
        /\ req[r].panicked
        /\ shouldCollectMetrics(req[r].target.path)

\* "Bearer <non-empty token>", stated on the text of the header.
IsBearerForm(h) ==
    \E token \in {SubSeq(h, i, Len(h)) : i \in 1..Len(h)} :
        /\ token # <<>>
        /\ h = <<"B", "e", "a", "r", "e", "r", " ">> \o token

AuthRefusals == {"unauthorized", "server_error", "decode_error", "net_error", "timeout"}

\* The auth stage has decided on request r, a request to a protected route
\* whose credential is missing, malformed or refused by the identity service.
BadCredentialDecided(r) ==
    /\ req[r].pc \notin {"idle", "auth"}
    /\ Route(req[r].target) \in {"GetProfile", "UpdateProfile"}
    /\ \/ ~IsBearerForm(req[r].authHeader)
       \/ req[r].authResp \in AuthRefusals

\* C6: with allowUnauthenticatedFallback = false, a request to a protected
\* route whose Authorization header is missing or not "Bearer <token>", or
\* whose token the identity service does not accept, is answered 401 by the
\* auth stage and its handler is never invoked.
C6_RejectsWithoutFallback ==
    \A r \in Reqs :
        (~allowFallback /\ BadCredentialDecided(r)) =>
            /\ req[r].pc = "done"
            /\ req[r].status = 401
            /\ req[r].rejectedBy = "auth"
            /\ ~req[r].handlerInvoked

C6_Witness ==
    /\ ~allowFallback
    /\ \E r \in Reqs :
          /\ BadCredentialDecided(r)
          /\ req[r].authHeader = HdrBearerTok
          /\ req[r].authResp = "decode_error"
          /\ req[r].status = 401

\* C7: with allowUnauthenticatedFallback = true, the same requests are never
\* rejected by the auth stage: they go on to the handler with user_id "1".
C7_FallbackPrincipal ==
    \A r \in Reqs :
        (allowFallback /\ BadCredentialDecided(r)) =>
            /\ req[r].rejectedBy = "none"
            /\ req[r].userID = "1"
            /\ req[r].pc = "handler" \/ req[r].handlerInvoked

C7_Witness ==
    /\ allowFallback
    /\ \E r \in Reqs :
          /\ BadCredentialDecided(r)
          /\ req[r].authResp = "net_error"
          /\ req[r].handlerInvoked
          /\ req[r].userID = "1"

\* C8: GET /ready answers 200 {"status":"ok"} when the flag it reads is
\* "serving" and 503 {"status":"shutting_down"} when it is "draining", and
\* nothing else.
C8_ReadyFollowsFlag ==
    \A r \in Reqs :
        (req[r].pc = "done" /\ Route(req[r].target) = "ready") =>
            \/ req[r].flagRead = "serving" /\ req[r].status = 200 /\ req[r].body = "ok"
            \/ req[r].flagRead = "draining" /\ req[r].status = 503
                  /\ req[r].body = "shutting_down"

C8_Witness ==
    \E r1, r2 \in Reqs :
        /\ req[r1].pc = "done" /\ Route(req[r1].target) = "ready" /\ req[r1].status = 200
        /\ req[r2].pc = "done" /\ Route(req[r2].target) = "ready" /\ req[r2].status = 503

\* C9: the readiness flag is "serving" until the termination signal and
\* "draining" from then on, in every later state; a /ready request that
\* arrives after a probe was answered 503 is not answered 200.
C9_FlagMonotonic ==
    /\ [](isShuttingDown <=> SignalSeen)
    /\ [][isShuttingDown => isShuttingDown']_vars
    /\ [](\A r \in Reqs :
            (req[r].pc = "done" /\ Route(req[r].target) = "ready" /\ req[r].after503)
               => req[r].status = 503)

C9_Witness ==
    \E r \in Reqs :
        /\ req[r].pc = "done"
        /\ Route(req[r].target) = "ready"
        /\ req[r].after503
        /\ req[r].status = 503

\* C10: once the flag is "draining" and the drain delay is over (srv.Shutdown
\* has been called), no request enters the middleware chain; requests that
\* are in it may go on.
ListenerShutdownStarted == isShuttingDown /\ mainPc \notin {"waitSignal", "sleep"}

C11_StartupFailureExit ==
    /\ startFailure # "none" =>
          /\ \A r \in Reqs : req[r].pc = "idle"
          /\ mainPc = "exited" => exitCode # 0
    /\ (startFailure = "none" /\ mainPc = "exited") => exitCode = 0

\* The place of a stage in the order trace, log, metrics, auth, handler,
\* metrics-end, logged-end.
StageRank(e) ==
    CASE e = Stage("trace", "start") -> 1
      [] e = Stage("log", "start") -> 2
      [] e = Stage("metrics", "start") -> 3
      [] e = Stage("auth", "start") -> 4
      [] e = Stage("handler", "start") -> 5
      [] e = Stage("metrics", "end") -> 6
      [] e = Stage("log", "end") -> 7
      [] OTHER -> 0

Ran(r, e) == \E i \in 1..Len(req[r].stages) : req[r].stages[i] = e

\* C12: the stages a request has run are in the order trace, log, metrics,
\* auth, handler, metrics-end, logged-end, each at most once; trace, log and
\* metrics have run for every request in the chain; the auth stage runs on
\* protected routes, before the handler, and on no other route; whatever the
\* other requests do meanwhile.
C12_StageOrder ==
    \A r \in Reqs :
        LET s == req[r].stages IN
        /\ \A i \in 1..Len(s) : StageRank(s[i]) > 0
        /\ \A i, j \in 1..Len(s) : i < j => StageRank(s[i]) < StageRank(s[j])
        /\ req[r].pc # "idle" =>
              Len(s) >= 3 /\ StageRank(s[1]) = 1 /\ StageRank(s[2]) = 2
                 /\ StageRank(s[3]) = 3
        /\ Ran(r, Stage("auth", "start")) => Protected(req[r].target)
        /\ (Ran(r, Stage("handler", "start")) /\ Protected(req[r].target))
              => Ran(r, Stage("auth", "start"))
        /\ Ran(r, Stage("log", "end")) => Ran(r, Stage("metrics", "end"))
        /\ (req[r].pc = "done" /\ ~req[r].panicked) => Ran(r, Stage("log", "end"))

\* The second request to arrive has gone through all its stages while the
\* first is still in its handler.
C12_Witness ==
    /\ req[1].pc = "inHandler"
    /\ req[2].pc = "done"
    /\ Len(req[2].stages) = 7

Observations(r, metric) ==
    {i \in 1..Len(req[r].obs) : req[r].obs[i].metric = metric}

\* C13: for a request to a path that is not exempted, every observation of
\* requests_total and of request_duration_seconds carries the final response
\* status as its code label, also when the auth stage answered 401 and the
\* handler did not run.
C13_LabelIsFinalStatus ==
    \A r \in Reqs :
        (req[r].pc = "done" /\ shouldCollectMetrics(req[r].target.path)) =>
            \A i \in Observations(r, "requests_total")
                       \cup Observations(r, "request_duration_seconds") :
                req[r].obs[i].code = req[r].status

C13_Witness ==
    \E r \in Reqs :
        /\ req[r].pc = "done"
        /\ req[r].rejectedBy = "auth"
        /\ ~req[r].handlerInvoked
        /\ req[r].status = 401
        /\ \E i \in Observations(r, "requests_total") : req[r].obs[i].code = 401
        /\ \E i \in Observations(r, "request_duration_seconds") : req[r].obs[i].code = 401

\* The fields of a traceparent value, version-trace_id-parent_id-flags: the
\* text between the hyphens, empty fields kept.
Hyphens(s) == {i \in 1..Len(s) : s[i] = "-"}

TraceIDField(s) ==
    LET h == Hyphens(s)
        first == CHOOSE i \in h : \A j \in h : i <= j
        rest == {i \in h : i > first}
        second == IF rest = {} THEN Len(s) + 1
                  ELSE CHOOSE i \in rest : \A j \in rest : i <= j
    IN SubSeq(s, first + 1, second - 1)

IsLowerHex32(s) ==
    /\ Len(s) = 32
    /\ \A i \in 1..Len(s) :
          s[i] \in {"0", "1", "2", "3", "4", "5", "6", "7", "8", "9",
                    "a", "b", "c", "d", "e", "f"}

\* C14: the response carries an X-Trace-ID; when the request's traceparent
\* has a trace-id field T (the second field, whatever the other fields are,
\* empty or missing) the X-Trace-ID is T; when the request has neither
\* traceparent nor X-Trace-ID it is a generated string of 32 lowercase
\* hexadecimal digits.
C14_TraceIDEchoed ==
    (call.fn = "GetTraceID" /\ call.done) =>
        /\ call.out # <<>>
        /\ (Hyphens(call.traceparent) # {} /\ TraceIDField(call.traceparent) # <<>>)
              => call.out = TraceIDField(call.traceparent)
        /\ (call.traceparent = <<>> /\ call.xTraceID = <<>>) => IsLowerHex32(call.out)

\* The exclusion set: health, readiness, metrics scrape, favicon.
ExclusionSet == {PathHealth, PathReady, PathMetrics, PathFavicon}

\* C15: a request to a path of the exclusion set changes no metric: it makes
\* no observation in requests_total, request_duration_seconds,
\* request_size_bytes, response_size_bytes or error_rate_total, and the
\* requests_in_flight gauge of its (method, path) stays at 0.
C15_ExemptPathsLeaveMetrics ==
    \A r \in Reqs :
        (req[r].pc # "idle" /\ req[r].target.path \in ExclusionSet) =>
            /\ req[r].obs = <<>>
            /\ requestsInFlight[req[r].target] = 0

DecodedOK == {"ok", "ok_noid"}

\* C17: for the answer the identity service gave to a request's call, GetMe
\* returns a user exactly when the answer was a 200 whose body decoded, and
\* an error exactly when it returns no user: 401, another status, a decode
\* error, a network error and a timeout each give an error and no user.  The
\* auth stage goes on as authenticated only with a user.
C17_PrincipalIffOK ==
    \A r \in Reqs :
        req[r].authCalls > 0 =>
            LET g == GetMe(req[r].authResp) IN
            /\ g.user <=> req[r].authResp \in DecodedOK
            /\ g.err <=> ~g.user
            /\ g.err => (req[r].rejectedBy = "auth" \/ (allowFallback /\ req[r].userID = "1"))
            /\ g.user => (req[r].rejectedBy = "none" /\ req[r].userID = g.id)

C17_Witness ==
    /\ \E r \in Reqs : req[r].authResp = "timeout" /\ req[r].rejectedBy = "auth"
    /\ ~allowFallback

ProfileTargets ==
    { [method |-> "GET", path |-> PathProfile],
      [method |-> "PUT", path |-> PathProfile] }

\* C18: the auth stage runs only on GET and PUT /api/v1/users/profile; a
\* request to any other route (GET /api/v1/users/:id, POST /api/v1/users,
\* /health, /ready, /metrics) goes to its handler whatever its Authorization
\* header is, is never rejected by the auth stage and causes no call to the
\* identity service.
C18_AuthOnProfileOnly ==
    \A r \in Reqs :
        /\ Ran(r, Stage("auth", "start")) => req[r].target \in ProfileTargets
        /\ (req[r].pc # "idle" /\ req[r].target \notin ProfileTargets) =>
              /\ req[r].authCalls = 0
              /\ req[r].authResp = "none"
              /\ req[r].rejectedBy = "none"
              /\ req[r].pc = "handler" \/ req[r].handlerInvoked
              /\ req[r].pc = "done" => req[r].status # 401

C18_Witness ==
    \E r \in Reqs :
        /\ req[r].target = [method |-> "POST", path |-> PathUsers]
        /\ req[r].authHeader = HdrBasic
        /\ req[r].pc = "done"
        /\ req[r].status = 201
        /\ req[r].authCalls = 0

\* C19: with fallback disabled, a request to a protected route without an
\* Authorization header is answered 401 {"error":"Authentication required"},
\* and one with a "Bearer <token>" header whose token the identity service
\* answers with 401 is answered 401 {"error":"Invalid or expired token"}.
\* (A body is held as the text of its "error" field.)
C19_RejectionBodies ==
    \A r \in Reqs :
        (~allowFallback /\ Protected(req[r].target) /\ req[r].pc \notin {"idle", "auth"}) =>
            /\ req[r].authHeader = <<>> =>
                  /\ req[r].pc = "done"
                  /\ req[r].status = 401
                  /\ req[r].body = "Authentication required"
            /\ (IsBearerForm(req[r].authHeader) /\ req[r].authResp = "unauthorized") =>
                  /\ req[r].pc = "done"
                  /\ req[r].status = 401
                  /\ req[r].body = "Invalid or expired token"

C19_Witness ==
    /\ ~allowFallback
    /\ \E r1, r2 \in Reqs :
          /\ Protected(req[r1].target) /\ req[r1].authHeader = <<>>
          /\ req[r1].body = "Authentication required"
          /\ Protected(req[r2].target) /\ req[r2].authResp = "unauthorized"
          /\ req[r2].body = "Invalid or expired token"

\* C20: GET /health is answered 200 {"status":"ok"} in every state in which
\* it is answered, so whenever the listener took the request, also after the
\* readiness flag has become "draining": every step that answers a /health
\* request answers it so, whatever the flag is.
C20_HealthAlwaysOK ==
    /\ [](\A r \in Reqs :
            (req[r].pc = "done" /\ Route(req[r].target) = "health")
               => req[r].status = 200 /\ req[r].body = "ok")
    /\ [][\A r \in Reqs :
            (Route(req[r].target) = "health" /\ req[r].pc = "handler"
               /\ req'[r].pc # "handler")
               => req'[r].pc = "done" /\ req'[r].status = 200 /\ req'[r].body = "ok"]_vars

\* A /health request that arrived after a readiness probe had been answered
\* 503, so while the flag was "draining", has been answered 200.
C20_Witness ==
    \E r \in Reqs :
        /\ Route(req[r].target) = "health"
        /\ req[r].after503
        /\ req[r].pc = "done"
        /\ req[r].status = 200
        /\ isShuttingDown

\* C21: whatever SHUTDOWN_TIMEOUT and READINESS_DRAIN_DELAY are set to
\* (unset, not a duration, zero, negative, less than a second, above the
\* maximum), the shutdown timeout is a whole number of seconds in 1..60, 10
\* when the variable is unset, and the drain delay one in 1..30, 5 when unset.
C21_DurationsInRange ==
    (call.fn = "Load" /\ call.done) =>
        /\ call.ShutdownTimeout \in 1..60
        /\ call.SHUTDOWN_TIMEOUT = <<>> => call.ShutdownTimeout = 10
        /\ call.ReadinessDrainDelay \in 1..30
        /\ call.READINESS_DRAIN_DELAY = <<>> => call.ReadinessDrainDelay = 5

\* A drain delay of less than a second and a timeout above the maximum have
\* been replaced by the defaults.
C21_Witness ==
    /\ call.fn = "Load" /\ call.done
    /\ call.READINESS_DRAIN_DELAY = <<"1", "m", "s">>
    /\ call.ReadinessDrainDelay = 5
    /\ call.SHUTDOWN_TIMEOUT = <<>>
    /\ call.ShutdownTimeout = 10

\* C22: the shutdown deadline is set once, when the drain delay is over, to
\* that moment plus the shutdown timeout, and never again; srv.Shutdown and
\* tp.Shutdown both run against it: neither is waited for past it, and
\* tp.Shutdown, called when the earlier steps have used the time up, ends
\* with an error.
C22_SharedDeadline ==
    /\ [](deadline # -1 <=> Called("srv.Shutdown"))
    /\ [](deadline # -1 => deadline = ReadinessDrainDelay + ShutdownTimeout)
    /\ [][deadline # -1 => deadline' = deadline]_vars
    /\ [][(mainPc \in {"srvShutdown", "tpShutdown"} /\ mainPc' = mainPc
            /\ elapsed' > elapsed) => elapsed < deadline]_vars
    /\ []((mainPc \in {"stopProfiling", "complete", "exited"} /\ Called("tp.Shutdown")
             /\ elapsed >= deadline) => tpErr)

\* srv.Shutdown has used the whole timeout and tp.Shutdown, called after it,
\* has ended with an error.
C22_Witness ==
    /\ mainPc = "complete"
    /\ srvErr
    /\ Called("tp.Shutdown")
    /\ tpErr
    /\ elapsed >= deadline
    /\ deadline = ReadinessDrainDelay + ShutdownTimeout

LogEntries(r, level) ==
    {i \in 1..Len(req[r].logs) : req[r].logs[i].level = level}

\* C23: a request that has been answered has exactly one "HTTP request"
\* entry, written after the handler and carrying the final status, and
\* exactly one more entry, at level error, if and only if the final status
\* is 400 or more.
C23_OneLogEntry ==
    \A r \in Reqs :
        req[r].pc = "done" =>
            /\ Cardinality(LogEntries(r, "info")) = 1
            /\ \A i \in LogEntries(r, "info") :
                  req[r].logs[i].msg = "HTTP request" /\ req[r].logs[i].status = req[r].status
            /\ Cardinality(LogEntries(r, "error")) = (IF req[r].status >= 400 THEN 1 ELSE 0)

\* C24: for a request to a path that is not exempted, the observations of
\* request_size_bytes, response_size_bytes and request_duration_seconds all
\* carry the same labels: the final status code of the request (method and
\* path are those of the request in every observation).
C24_SameLabelTriple ==
    \A r \in Reqs :
        (req[r].pc = "done" /\ shouldCollectMetrics(req[r].target.path)) =>
            \A i \in Observations(r, "request_size_bytes")
                       \cup Observations(r, "response_size_bytes")
                       \cup Observations(r, "request_duration_seconds") :
                req[r].obs[i].code = req[r].status

\* The requests to target t that have passed metrics-start and not yet
\* metrics-end.
BetweenMetricsStartAndEnd(t) ==
    {r \in Reqs : /\ req[r].target = t
                  /\ Ran(r, Stage("metrics", "start"))
                  /\ ~Ran(r, Stage("metrics", "end"))}

\* C25: in every state, whatever the interleaving of the requests, the
\* requests_in_flight gauge of a (method, path) that is not exempted is the
\* number of requests with that method and path that have passed
\* metrics-start and not yet passed metrics-end; no gauge is ever negative,
\* and the gauge of an exempted path is never touched.
C25_GaugeCountsInFlight ==
    \A t \in Targets :
        /\ requestsInFlight[t] >= 0
        /\ requestsInFlight[t] =
              (IF shouldCollectMetrics(t.path)
               THEN Cardinality(BetweenMetricsStartAndEnd(t))
               ELSE 0)

\* Two requests to the same route are in flight at once, and one of them has
\* got ahead of the other.
C25_Witness ==
    /\ requestsInFlight[[method |-> "GET", path |-> PathProfile]] = 2
    /\ req[1].pc = "auth"
    /\ req[2].pc = "inHandler"

\* C26: the pool is never closed while a request is in progress: in every
\* state in which pool.Close has been called no request is in flight, also
\* when srv.Shutdown returned because the deadline had passed.
C26_PoolClosedOnlyWhenIdle ==
    (Called("pool.Close") \/ poolClosed) => InFlight = {}

SequenceCalls(name) == {i \in Calls(name) : steps[i].by = "runGracefulShutdown"}

\* C28: the shutdown sequence runs at most once: a further SIGTERM or SIGINT
\* during the drain delay or the teardown changes neither the position of the
\* sequence nor the calls made, no step of the sequence is ever made twice,
\* and a process that has exited after its signals has made every step.
C28_SequenceRunsOnce ==
    /\ [][(signals >= 1 /\ signals' > signals)
             => UNCHANGED <<mainPc, steps, isShuttingDown, listener, deadline,
                            poolClosed, srvErr, tpErr, exitCode>>]_vars
    /\ [](\A i \in 1..Len(TeardownOrder) :
             Cardinality(SequenceCalls(TeardownOrder[i])) <= 1)
    /\ []((mainPc = "exited" /\ signals >= 1) =>
             \A i \in 1..Len(TeardownOrder) :
                 Cardinality(SequenceCalls(TeardownOrder[i])) =
                    (IF TeardownOrder[i] = "tp.Shutdown" /\ ~tp THEN 0 ELSE 1))

C28_Witness ==
    /\ signals = MaxSignals
    /\ mainPc = "exited"
    /\ exitCode = 0
    /\ Called("StopProfiling")

\* C29: with fallback disabled, a request that the auth stage let through to
\* a protected handler carries a non-empty user_id, whatever the identity
\* service answered.
C29_AttachedUserIDNonEmpty ==
    ~allowFallback =>
        \A r \in Reqs :
            (Protected(req[r].target) /\ req[r].handlerInvoked) => req[r].userID # ""

\* C30: the trace stage and the metrics stage exempt the same requests: for
\* every path, shouldTrace is false exactly when shouldCollectMetrics is.
C30_SameExemptions ==
    (call.fn = "shouldTrace" /\ call.done) => (call.traced <=> call.collected)

====
